---------------------------- MODULE Spec2Model ----------------------------
(* Model of cloudfrontgate.go: the trusted-range store (ipstore), its      *)
(* construction (New), the refresh loop and the request path (ServeHTTP).  *)
(* Text is a sequence of one-character strings, an IP address is a         *)
(* sequence of 4 or 16 bytes, a net.IPNet is a record [IP, Mask] of byte   *)
(* sequences, as in Go's package net.                                      *)
EXTENDS Integers, Sequences, FiniteSets, TLC

(***************************************************************************)
(* Characters, decimal and hexadecimal numbers, strings.Split              *)
(***************************************************************************)
DecChars == <<"0", "1", "2", "3", "4", "5", "6", "7", "8", "9">>

HexChars == <<"0", "1", "2", "3", "4", "5", "6", "7", "8", "9",
              "a", "b", "c", "d", "e", "f">>

HexUpper == <<"0", "1", "2", "3", "4", "5", "6", "7", "8", "9",
              "A", "B", "C", "D", "E", "F">>

IsDigit(c) == \E i \in 1..10 : DecChars[i] = c

DigitVal(c) == (CHOOSE i \in 1..10 : DecChars[i] = c) - 1

IsHex(c) == \E i \in 1..16 : HexChars[i] = c \/ HexUpper[i] = c

HexVal(c) == (CHOOSE i \in 1..16 : HexChars[i] = c \/ HexUpper[i] = c) - 1

AllDigits(s) == \A i \in 1..Len(s) : IsDigit(s[i])

AllHex(s) == \A i \in 1..Len(s) : IsHex(s[i])

\* the value of expression e handed to F, e evaluated once
Let(e, F(_)) == CHOOSE r \in {F(v) : v \in {e}} : TRUE

\* the value of the first n decimal digits of s
RECURSIVE DecPrefix(_, _)
DecPrefix(s, n) ==
    IF n = 0 THEN 0 ELSE 10 * DecPrefix(s, n - 1) + DigitVal(s[n])

DecValue(s) == DecPrefix(s, Len(s))

RECURSIVE HexPrefix(_, _)
HexPrefix(s, n) ==
    IF n = 0 THEN 0 ELSE 16 * HexPrefix(s, n - 1) + HexVal(s[n])

HexValue(s) == HexPrefix(s, Len(s))

\* the index of the first c in s at or after from, 0 when there is none
IndexFrom(s, c, from) ==
    IF \E i \in from..Len(s) : s[i] = c
    THEN CHOOSE i \in from..Len(s) :
            s[i] = c /\ \A j \in from..(i - 1) : s[j] # c
    ELSE 0

\* strings.IndexByte: the index (from 1) of the first c in s, 0 when absent
IndexByte(s, c) == IndexFrom(s, c, 1)

\* strings.Contains for a one-character substring
StrContains(s, c) == \E i \in 1..Len(s) : s[i] = c

\* the fields of s from index from on
RECURSIVE SplitFrom(_, _, _)
SplitFrom(s, c, from) ==
    Let(IndexFrom(s, c, from), LAMBDA i :
        IF i = 0 THEN <<SubSeq(s, from, Len(s))>>
        ELSE <<SubSeq(s, from, i - 1)>> \o SplitFrom(s, c, i + 1))

\* strings.Split(s, c): the fields of s between the occurrences of c
Split(s, c) == Let(s, LAMBDA t : SplitFrom(t, c, 1))

(***************************************************************************)
(* net.ParseIP                                                             *)
(***************************************************************************)
NilIP == <<>>

IPv4len == 4

IPv6len == 16

\* one decimal field of a dotted quad: 1 to 3 digits, no leading zero, <= 255
ValidV4Field(f) ==
    /\ Len(f) \in 1..3
    /\ AllDigits(f)
    /\ (Len(f) > 1 => f[1] # "0")
    /\ DecValue(f) <= 255

\* the 4 bytes of a dotted-decimal address, NilIP when malformed
ParseIPv4(s) ==
    Let(Split(s, "."), LAMBDA fs :
        IF Len(fs) = 4 /\ \A i \in 1..4 : ValidV4Field(fs[i])
        THEN <<DecValue(fs[1]), DecValue(fs[2]), DecValue(fs[3]),
               DecValue(fs[4])>>
        ELSE NilIP)

ValidV6Group(f) == Len(f) \in 1..4 /\ AllHex(f)

\* the two bytes of a group of hexadecimal digits
GroupBytes(f) == <<HexValue(f) \div 256, HexValue(f) % 256>>

\* the bytes of the groups gs[k], gs[k + 1], ...
RECURSIVE GroupsBytesFrom(_, _)
GroupsBytesFrom(gs, k) ==
    IF k > Len(gs) THEN <<>>
    ELSE GroupBytes(gs[k]) \o GroupsBytesFrom(gs, k + 1)

GroupsBytes(gs) == Let(gs, LAMBDA g : GroupsBytesFrom(g, 1))

Zeros(n) == [i \in 1..n |-> 0]

\* the fields of an IPv6 text with a leading or trailing "::" reduced to
\* one empty field, <<>> when a single colon starts or ends the text
V6Fields(s) ==
    Let(Split(s, ":"), LAMBDA fs :
        LET n == Len(fs)
        IN  IF n < 3 THEN <<>>
            ELSE IF n = 3 /\ fs[1] = <<>> /\ fs[2] = <<>> /\ fs[3] = <<>>
                 THEN <<fs[1]>>
            ELSE IF fs[1] = <<>> /\ fs[2] # <<>> THEN <<>>
            ELSE IF fs[n] = <<>> /\ fs[n - 1] # <<>> THEN <<>>
            ELSE SubSeq(fs, IF fs[1] = <<>> THEN 2 ELSE 1,
                            IF fs[n] = <<>> THEN n - 1 ELSE n))

\* the 16 bytes of the fields fs of an IPv6 text, tail the bytes of a
\* trailing dotted quad (it stands for the last two groups)
V6Bytes(fs, last, tail) ==
    LET empty == {i \in 1..last : fs[i] = <<>>}
        hexOK == \A i \in 1..last : fs[i] = <<>> \/ ValidV6Group(fs[i])
    IN  IF Cardinality(empty) > 1 \/ ~hexOK THEN NilIP
        ELSE IF empty = {}
        THEN IF 2 * last + Len(tail) = IPv6len
             THEN GroupsBytes(SubSeq(fs, 1, last)) \o tail
             ELSE NilIP
        ELSE Let(CHOOSE i \in empty : TRUE, LAMBDA e :
             Let(GroupsBytes(SubSeq(fs, 1, e - 1)), LAMBDA left :
             Let(GroupsBytes(SubSeq(fs, e + 1, last)) \o tail, LAMBDA right :
                 \* the ellipsis stands for at least one group of zeros
                 IF Len(left) + Len(right) < IPv6len
                 THEN left \o Zeros(IPv6len - Len(left) - Len(right))
                           \o right
                 ELSE NilIP)))

\* the 16 bytes of an IPv6 text, NilIP when malformed
ParseIPv6(s) ==
    Let(V6Fields(s), LAMBDA fs :
        IF fs = <<>> THEN NilIP
        ELSE IF StrContains(fs[Len(fs)], ".")
        THEN Let(ParseIPv4(fs[Len(fs)]), LAMBDA v4 :
                 IF v4 = NilIP THEN NilIP
                 ELSE V6Bytes(fs, Len(fs) - 1, v4))
        ELSE V6Bytes(fs, Len(fs), <<>>))

v4InV6Prefix == <<0, 0, 0, 0, 0, 0, 0, 0, 0, 0, 255, 255>>

\* IP.To4: the 4-byte form of an IPv4 address, NilIP for any other address
To4(ip) ==
    IF Len(ip) = IPv4len THEN ip
    ELSE IF Len(ip) = IPv6len /\ SubSeq(ip, 1, 12) = v4InV6Prefix
         THEN SubSeq(ip, 13, 16)
         ELSE NilIP

\* the parse of the evaluated text t
ParseIPText(t) ==
    LET d == IndexByte(t, ".")
        c == IndexByte(t, ":")
    IN  IF d # 0 /\ (c = 0 \/ d < c)
        THEN Let(ParseIPv4(t), LAMBDA a :
                 IF a = NilIP THEN NilIP ELSE v4InV6Prefix \o a)
        ELSE IF c # 0 THEN ParseIPv6(t)
        ELSE NilIP

\* net.ParseIP: 16 bytes (an IPv4 address in its IPv4-in-IPv6 form), or
\* NilIP; the first '.' or ':' of the text decides the family
ParseIP(s) == Let(s, ParseIPText)

(***************************************************************************)
(* net.CIDRMask, net.ParseCIDR, net.IPNet.Contains                         *)
(***************************************************************************)
\* 2^n for n in 0..8
Pow2(n) == <<1, 2, 4, 8, 16, 32, 64, 128, 256>>[n + 1]

\* the bitwise and of two bytes
BitAnd(a, b) ==
    ((a % 2) * (b % 2))
    + 2 * (((a \div 2) % 2) * ((b \div 2) % 2))
    + 4 * (((a \div 4) % 2) * ((b \div 4) % 2))
    + 8 * (((a \div 8) % 2) * ((b \div 8) % 2))
    + 16 * (((a \div 16) % 2) * ((b \div 16) % 2))
    + 32 * (((a \div 32) % 2) * ((b \div 32) % 2))
    + 64 * (((a \div 64) % 2) * ((b \div 64) % 2))
    + 128 * (((a \div 128) % 2) * ((b \div 128) % 2))

\* net.CIDRMask(ones, bits): bits/8 bytes, the first `ones` bits set
CIDRMask(ones, bits) ==
    [i \in 1..(bits \div 8) |->
        IF ones >= 8 * i THEN 255
        ELSE IF ones <= 8 * (i - 1) THEN 0
        ELSE 256 - Pow2(8 * i - ones)]

\* IP.Mask for an address and a mask of the same length
MaskIP(ip, m) == [i \in 1..Len(ip) |-> BitAnd(ip[i], m[i])]

NilNet == [IP |-> NilIP, Mask |-> <<>>]

\* the network of address ip16 (parsed from addr) and prefix length n
CIDRNet(addr, ip16, n) ==
    LET \* netip's Is4: the text was a dotted quad, not an IPv4-mapped IPv6
        is4   == ~StrContains(addr, ":")
        iplen == IF is4 THEN IPv4len ELSE IPv6len
    IN  IF n > 8 * iplen THEN NilNet
        ELSE Let(CIDRMask(n, 8 * iplen), LAMBDA m :
                 [IP |-> MaskIP(IF is4 THEN To4(ip16) ELSE ip16, m),
                  Mask |-> m])

\* the parse of the evaluated text t
ParseCIDRText(t) ==
    Let(IndexByte(t, "/"), LAMBDA i :
        IF i = 0 THEN NilNet
        ELSE Let(SubSeq(t, 1, i - 1), LAMBDA addr :
             Let(SubSeq(t, i + 1, Len(t)), LAMBDA mask :
             Let(ParseIP(addr), LAMBDA ip16 :
                 IF \/ ip16 = NilIP
                    \/ mask = <<>> \/ ~AllDigits(mask) \/ Len(mask) > 7
                 THEN NilNet
                 ELSE CIDRNet(addr, ip16, DecValue(mask))))))

\* net.ParseCIDR: the network of "address/length", NilNet on error
ParseCIDR(s) == Let(s, ParseCIDRText)

\* net.IPNet.Contains: byte-wise comparison under the mask
IPNetContains(n, ip) ==
    \E x  \in {IF To4(ip) # NilIP THEN To4(ip) ELSE ip},
       nn \in {IF To4(n.IP) # NilIP THEN To4(n.IP) ELSE n.IP} :
        \E m \in {IF Len(n.Mask) = IPv6len /\ Len(nn) = IPv4len
                  THEN SubSeq(n.Mask, 13, 16) ELSE n.Mask} :
            /\ Len(nn) \in {IPv4len, IPv6len}
            /\ Len(m) = Len(nn)
            /\ Len(x) = Len(nn)
            /\ \A i \in 1..Len(x) :
                  BitAnd(nn[i], m[i]) = BitAnd(x[i], m[i])

(***************************************************************************)
(* time.ParseDuration, in seconds, for texts without a fraction and with   *)
(* the units s, m, h                                                       *)
(***************************************************************************)
UnitNames == <<<<"s">>, <<"m">>, <<"h">>>>

UnitSeconds == <<1, 60, 3600>>

IsUnit(u) == \E i \in 1..3 : UnitNames[i] = u

UnitOf(u) == UnitSeconds[CHOOSE i \in 1..3 : UnitNames[i] = u]

\* the length of the longest run of digits (d) or of other characters
\* (~d) of s that starts at index from
RECURSIVE Span(_, _, _)
Span(s, from, d) ==
    IF from <= Len(s) /\ (IsDigit(s[from]) <=> d)
    THEN 1 + Span(s, from + 1, d) ELSE 0

\* the sum of the (digits, unit) groups of s from index from on, -1 when
\* malformed
RECURSIVE DurationGroups(_, _)
DurationGroups(s, from) ==
    IF from > Len(s) THEN 0
    ELSE Let(Span(s, from, TRUE), LAMBDA nd :
         Let(Span(s, from + nd, FALSE), LAMBDA nu :
         Let(SubSeq(s, from + nd, from + nd + nu - 1), LAMBDA unit :
             IF nd = 0 \/ nd > 4 \/ ~IsUnit(unit) THEN 0 - 1
             ELSE Let(DurationGroups(s, from + nd + nu), LAMBDA more :
                  IF more < 0 THEN 0 - 1
                  ELSE DecValue(SubSeq(s, from, from + nd - 1))
                           * UnitOf(unit) + more))))

\* the parse of the evaluated text t
ParseDurationText(t) ==
    LET neg  == t # <<>> /\ t[1] = "-"
        sign == t # <<>> /\ t[1] \in {"-", "+"}
        from == IF sign THEN 2 ELSE 1
    IN  IF SubSeq(t, from, Len(t)) = <<"0">> THEN [err |-> FALSE, d |-> 0]
        ELSE IF from > Len(t) THEN [err |-> TRUE, d |-> 0]
        ELSE Let(DurationGroups(t, from), LAMBDA d :
                 IF d < 0 THEN [err |-> TRUE, d |-> 0]
                 ELSE [err |-> FALSE, d |-> IF neg THEN 0 - d ELSE d])

\* time.ParseDuration: [err, d], d the signed duration when err is FALSE
ParseDuration(s) == Let(s, ParseDurationText)

(***************************************************************************)
(* The texts the inputs are drawn from                                     *)
(***************************************************************************)
\* "24h"
T_24h ==
    <<"2", "4", "h">>

\* "0s"
T_0s ==
    <<"0", "s">>

\* "-1h"
T_neg1h ==
    <<"-", "1", "h">>

\* "abc"
T_abc ==
    <<"a", "b", "c">>

\* "192.168.1.0/24"
T_lan24 ==
    <<"1", "9", "2", ".", "1", "6", "8", ".", "1", ".", "0", "/", "2", "4">>

\* "10.0.0.5"
T_host ==
    <<"1", "0", ".", "0", ".", "0", ".", "5">>

\* "999.1.1.1"
T_bad_octet ==
    <<"9", "9", "9", ".", "1", ".", "1", ".", "1">>

\* "2001:db8::/32"
T_v6net ==
    <<"2", "0", "0", "1", ":", "d", "b", "8", ":", ":", "/", "3", "2">>

\* "2001:db8::1"
T_v6host ==
    <<"2", "0", "0", "1", ":", "d", "b", "8", ":", ":", "1">>

\* "203.0.113.0/24"
T_cf24 ==
    <<"2", "0", "3", ".", "0", ".", "1", "1", "3", ".", "0", "/", "2", "4">>

\* "13.113.196.64/26"
T_edge26 ==
    <<"1", "3", ".", "1", "1", "3", ".", "1", "9", "6", ".", "6", "4", "/", "2", "6">>

\* "10.0.0.0/99"
T_bad_len ==
    <<"1", "0", ".", "0", ".", "0", ".", "0", "/", "9", "9">>

\* "10.0.0.5"
T_req_host ==
    <<"1", "0", ".", "0", ".", "0", ".", "5">>

\* "not-an-ip:80"
T_req_text ==
    <<"n", "o", "t", "-", "a", "n", "-", "i", "p", ":", "8", "0">>

\* "13.113.196.65:443"
T_req_edge ==
    <<"1", "3", ".", "1", "1", "3", ".", "1", "9", "6", ".", "6", "5", ":", "4", "4", "3">>

\* "[2001:db8::1]:443"
T_req_v6 ==
    <<"[", "2", "0", "0", "1", ":", "d", "b", "8", ":", ":", "1", "]", ":", "4", "4", "3">>

(***************************************************************************)
(* Inputs: configurations, replies of the remote endpoint, requests        *)
(***************************************************************************)
\* number of concurrent request goroutines
NumReaders == 1

Readers == 1..NumReaders

RefreshIntervals == {T_24h, T_0s, T_neg1h, T_abc}

AllowedIPsLists ==
    {<<>>, <<T_host, T_v6net>>, <<T_lan24, T_bad_octet>>}

\* every list of operator ranges with a positive interval, every interval
\* with one list
Configs ==
    [RefreshInterval : {T_24h}, AllowedIPs : AllowedIPsLists]
        \cup [RefreshInterval : RefreshIntervals, AllowedIPs : {<<>>}]

\* the entries of the lists that parseCIDRs is applied to on its own
EntryTexts ==
    {T_lan24, T_host, T_bad_octet, T_v6net, T_v6host, T_edge26, T_bad_len}

\* length of the longest such list
MaxEntries == 2

EntryLists == UNION {[1..n -> EntryTexts] : n \in 0..MaxEntries}

ParseConfigs == [RefreshInterval : {T_24h}, AllowedIPs : EntryLists]

\* CFResponse values a well-formed body decodes to
CFResponses ==
    { [GlobalIPList |-> <<T_edge26>>, RegionalEdgeIPList |-> <<>>],
      [GlobalIPList |-> <<T_cf24>>, RegionalEdgeIPList |-> <<T_edge26>>],
      [GlobalIPList |-> <<T_cf24>>, RegionalEdgeIPList |-> <<T_bad_len>>],
      [GlobalIPList |-> <<T_bad_octet>>, RegionalEdgeIPList |-> <<T_edge26>>] }

EmptyResponse == [GlobalIPList |-> <<>>, RegionalEdgeIPList |-> <<>>]

\* what one HTTP exchange can give: the request fails, the status is not
\* 200, the body cannot be read, the body is not JSON, or a CFResponse
Replies ==
    [kind : {"doerr", "status", "readerr", "badjson"}, resp : {EmptyResponse}]
        \cup [kind : {"ok"}, resp : CFResponses]

RemoteAddrs == {T_req_host, T_req_text, T_req_edge, T_req_v6}

(***************************************************************************)
(* parseCIDRs, parseResponse, createContext, fetch                         *)
(***************************************************************************)
HTTPTimeoutDefault == 5

\* as parseCIDRsLoop, but on an invalid entry the ranges parsed so far are
\* returned with the error
RECURSIVE parseCIDRsLoopPartial(_, _, _)
parseCIDRsLoopPartial(ips, k, trustedIPs) ==
    IF k > Len(ips) THEN [err |-> FALSE, nets |-> trustedIPs]
    ELSE Let(IF ~StrContains(ips[k], "/")
             THEN ips[k] \o <<"/", "3", "2">>
             ELSE ips[k], LAMBDA ip :
         Let(ParseCIDR(ip), LAMBDA ipNet :
             IF ipNet = NilNet THEN [err |-> TRUE, nets |-> trustedIPs]
             ELSE Let(Append(trustedIPs, ipNet), LAMBDA more :
                      parseCIDRsLoopPartial(ips, k + 1, more))))

\* the loop of parseCIDRs from entry k on, trustedIPs the ranges so far
RECURSIVE parseCIDRsLoop(_, _, _)
parseCIDRsLoop(ips, k, trustedIPs) ==
    IF k > Len(ips) THEN [err |-> FALSE, nets |-> trustedIPs]
    ELSE Let(IF ~StrContains(ips[k], "/")
             THEN ips[k] \o <<"/", "3", "2">>
             ELSE ips[k], LAMBDA ip :
         Let(ParseCIDR(ip), LAMBDA ipNet :
             IF ipNet = NilNet THEN [err |-> TRUE, nets |-> <<>>]
             ELSE Let(Append(trustedIPs, ipNet), LAMBDA more :
                      parseCIDRsLoop(ips, k + 1, more))))

parseCIDRs(ips) == Let(ips, LAMBDA l : parseCIDRsLoop(l, 1, <<>>))

parseResponse(resp) ==
    Let(parseCIDRs(resp.GlobalIPList), LAMBDA globalIPList :
        IF globalIPList.err
        THEN [err |-> "failed to parse CLOUDFRONT_GLOBAL_IP_LIST CIDRs",
              nets |-> <<>>]
        ELSE Let(parseCIDRs(resp.RegionalEdgeIPList),
                 LAMBDA regionalEdgeIPList :
                 IF regionalEdgeIPList.err
                 THEN [err |->
                        "failed to parse CLOUDFRONT_REGIONAL_EDGE_IP_LIST CIDRs",
                       nets |-> <<>>]
                 ELSE [err |-> "nil",
                       nets |-> globalIPList.nets
                                    \o regionalEdgeIPList.nets]))

\* a context value with its dynamic type
createContext(timeout, trustedIPs) ==
    [HTTPTimeout |-> [typ |-> "int", val |-> timeout],
     TrustedIPs  |-> [typ |-> "[]net.IPNet", val |-> trustedIPs]]

fetch(ctx, reply) ==
    IF ctx.HTTPTimeout.typ # "int"
    THEN [err |-> "invalid timeout value", nets |-> <<>>]
    ELSE IF reply.kind = "doerr"
    THEN [err |-> "failed to execute request", nets |-> <<>>]
    ELSE IF reply.kind = "status"
    THEN [err |-> "unexpected response status", nets |-> <<>>]
    ELSE IF reply.kind = "readerr"
    THEN [err |-> "failed to read response body", nets |-> <<>>]
    ELSE IF reply.kind = "badjson"
    THEN [err |-> "failed to unmarshal response", nets |-> <<>>]
    ELSE parseResponse(reply.resp)

(***************************************************************************)
(* ipstore: an atomic.Value holding the current []net.IPNet                *)
(***************************************************************************)
\* before newIPStore has run
NoStore == [typ |-> "none", val |-> <<>>]

\* as Store, but what is stored is a pointer to the slice
StoreAsPointer(cidrs) == [typ |-> "*[]net.IPNet", val |-> cidrs]

\* atomic.Value.Store of a []net.IPNet
Store(cidrs) == [typ |-> "[]net.IPNet", val |-> cidrs]

\* as newIPStore, but the store starts with a range that holds every
\* IPv4 address
newIPStoreAllowAll ==
    Store(<<[IP |-> <<0, 0, 0, 0>>, Mask |-> <<0, 0, 0, 0>>]>>)

newIPStore == Store(<<>>)

\* as Update, but only the fetched ranges the store does not hold yet are
\* published after the operator ranges
UpdateDelta(ips, ctx, reply) ==
    LET trustedIPs == ctx.TrustedIPs.val
        old        == {ips.val[i] : i \in 1..Len(ips.val)}
    IN  Let(fetch(ctx, reply), LAMBDA fetched :
            IF fetched.err # "nil"
            THEN [err |-> fetched.err, ips |-> ips]
            ELSE [err |-> "nil",
                  ips |-> Store(trustedIPs \o
                      SelectSeq(fetched.nets, LAMBDA n : n \notin old))])

\* as Update, but the fetched ranges alone are published
UpdateDropTrusted(ips, ctx, reply) ==
    Let(fetch(ctx, reply), LAMBDA fetched :
        IF fetched.err # "nil"
        THEN [err |-> fetched.err, ips |-> ips]
        ELSE [err |-> "nil", ips |-> Store(fetched.nets)])

\* as Update, but a failed fetch publishes the operator ranges alone
UpdateResetOnError(ips, ctx, reply) ==
    LET trustedIPs == ctx.TrustedIPs.val
    IN  Let(fetch(ctx, reply), LAMBDA fetched :
            IF fetched.err # "nil"
            THEN [err |-> fetched.err, ips |-> Store(trustedIPs)]
            ELSE [err |-> "nil",
                  ips |-> Store(trustedIPs \o fetched.nets)])

\* ipstore.Update: the error returned and the store after the call
Update(ips, ctx, reply) ==
    IF ctx.TrustedIPs.typ # "[]net.IPNet"
    THEN [err |-> "invalid trusted IPs value", ips |-> ips]
    ELSE LET trustedIPs == ctx.TrustedIPs.val
         IN  Let(fetch(ctx, reply), LAMBDA fetched :
                 IF fetched.err # "nil"
                 THEN [err |-> fetched.err, ips |-> ips]
                 ELSE [err |-> "nil",
                       ips |-> Store(trustedIPs \o fetched.nets)])

\* as ContainsFrom, but the scan gives up at the first range that does not
\* hold the address
ContainsFirstOnly(cidrs, i, ip) ==
    i <= Len(cidrs) /\ IPNetContains(cidrs[i], ip)

\* the scan of ipstore.Contains from index i on
RECURSIVE ContainsFrom(_, _, _)
ContainsFrom(cidrs, i, ip) ==
    IF i > Len(cidrs) THEN FALSE
    ELSE IF IPNetContains(cidrs[i], ip) THEN TRUE
    ELSE ContainsFrom(cidrs, i + 1, ip)

\* ipstore.Contains as one call on one loaded value
Contains(ips, ip) ==
    IF ips.typ # "[]net.IPNet" THEN FALSE ELSE ContainsFrom(ips.val, 1, ip)

(***************************************************************************)
(* State                                                                   *)
(***************************************************************************)
VARIABLES
    config,      \* the *Config handed to New
    newpc,       \* New: "start", "updating" (inside ips.Update), "returned"
    newLocals,   \* New's refreshInterval and trustedIPs
    newResult,   \* what New returned: [handler, err]
    ips,         \* the ipstore's atomic.Value
    cf,          \* the CloudFrontGate, NoGate until New builds it
    loop,        \* refreshLoop: "none", "spawned", "idle", "refreshing",
                 \* "stopped", "panicked"
    ticker,      \* the loop's time.Ticker: "none", "running", "stopped"
    ctxDone,     \* the context handed to New has been cancelled
    upd,         \* the ips.Update call in progress, NoUpdate when none
    rd,          \* the request goroutines
    lastCall,    \* history: the last Update call: whether it returned an
                 \* error, whether its reply was a failing one, whether
                 \* its reply carried the response of the successful call
                 \* right before it, whether it left the store as it
                 \* found it, whether it failed right after a failed call
    lastGood,    \* history: the response of the last successful Update
    heap         \* the backing arrays of the []net.IPNet slices and who
                 \* points at them: the atomic.Value, the operator list
                 \* of New, the slice each request loaded

vars == <<config, newpc, newLocals, newResult, ips, cf, loop, ticker,
          ctxDone, upd, rd, lastCall, lastGood, heap>>

NoGate == [made |-> FALSE, trustedIPs |-> <<>>, refreshInterval |-> 0]

NoUpdate == [by |-> "none", ctx |-> createContext(0, <<>>),
             ctxWasDone |-> FALSE]

NoLocals == [refreshInterval |-> 0, trustedIPs |-> <<>>]

NoCall ==
    [made |-> FALSE, failed |-> FALSE, failing |-> FALSE, repeat |-> FALSE,
     kept |-> TRUE, again |-> FALSE]

NoGood == [ok |-> FALSE, resp |-> EmptyResponse]

IdleReader ==
    [pc |-> "idle", addr |-> <<>>, ip |-> NilIP, cidrs |-> <<>>, i |-> 0,
     seen |-> <<>>, status |-> 0, nextCalls |-> 0, atStart |-> <<>>]

\* a panic in any goroutine ends the process
Crashed == loop = "panicked"

(***************************************************************************)
(* Backing arrays: a slice value is a pointer to an array; a copy of the   *)
(* slice shares the array, make allocates a new one                        *)
(***************************************************************************)
\* the places arrays live at: the store's, the operator list's, one per
\* request in progress, and the one an Update is building
Addrs == 1..(NumReaders + 3)

\* pointer 0 is no array
NoHeap ==
    [mem |-> [a \in Addrs |-> <<>>], store |-> 0, trusted |-> 0,
     rdr |-> [r \in Readers |-> 0]]

\* the arrays some slice still points at
Live(h) == ({h.store, h.trusted} \cup {h.rdr[r] : r \in Readers}) \ {0}

\* a new array: one no slice points at
Alloc(h) ==
    CHOOSE a \in Addrs :
        a \notin Live(h) /\ \A b \in Addrs : b < a => b \in Live(h)

\* the pointers held, in a fixed order: the store's, the operator list's,
\* then each request's
Roots(h) == <<h.store, h.trusted>> \o [r \in Readers |-> h.rdr[r]]

\* where the collector moves array p to: the arrays in use are packed into
\* the lowest places, in the order of the pointers that hold them
Moved(h, p) ==
    IF p = 0 THEN 0
    ELSE LET R     == Roots(h)
             first == CHOOSE j \in 1..Len(R) :
                         R[j] = p /\ \A k \in 1..(j - 1) : R[k] # p
         IN  Cardinality({R[k] : k \in 1..first} \ {0})

\* the garbage collector: an array no slice points at is gone, the others
\* are moved, contents and pointers alike (the place of an array carries
\* no meaning, only which slices share it)
Collect(h) ==
    [mem     |-> [a \in Addrs |->
                    IF \E p \in Live(h) : Moved(h, p) = a
                    THEN h.mem[CHOOSE p \in Live(h) : Moved(h, p) = a]
                    ELSE <<>>],
     store   |-> Moved(h, h.store),
     trusted |-> Moved(h, h.trusted),
     rdr     |-> [r \in Readers |-> Moved(h, h.rdr[r])]]

\* ips.Store([]net.IPNet{}) of newIPStore
HeapNewIPStore(h) ==
    Let(Alloc(h), LAMBDA a :
        Collect([h EXCEPT !.mem[a] = <<>>, !.store = a]))

\* trustedIPs := make([]net.IPNet, 0, len(ips)) of parseCIDRs in New, and
\* the appends that fill it
HeapTrustedIPs(h, nets) ==
    Let(Alloc(h), LAMBDA a :
        Collect([h EXCEPT !.mem[a] = nets, !.trusted = a]))

\* as makeCidrs, but Update reuses the array the store points at
makeCidrsReuse(h) == h.store

\* cidrs := make([]net.IPNet, 0, len(trustedIPs)+len(fetchedCIDRs))
makeCidrs(h) == Alloc(h)

\* the memory effects of a call of Update with result res: none when it
\* failed; else make, the two appends that copy the operator ranges and
\* the fetched ranges into the new array, and Store.  The slices of
\* parseCIDRs and parseResponse inside fetch are made in the call and
\* dropped at its return.
HeapUpdate(h, res) ==
    IF res.err # "nil" THEN h
    ELSE Let(makeCidrs(h), LAMBDA a :
             Collect([h EXCEPT !.mem[a] = res.ips.val, !.store = a]))

\* cidrs, ok := ips.Load().([]net.IPNet) in the request of goroutine r
HeapLoad(h, r) == [h EXCEPT !.rdr[r] = h.store]

\* Contains has returned in goroutine r: its slice is dropped
HeapRelease(h, r) == Collect([h EXCEPT !.rdr[r] = 0])

Init ==
    /\ config \in Configs
    /\ newpc = "start"
    /\ newLocals = NoLocals
    /\ newResult = [handler |-> FALSE, err |-> "none"]
    /\ ips = NoStore
    /\ cf = NoGate
    /\ loop = "none"
    /\ ticker = "none"
    /\ ctxDone = FALSE
    /\ upd = NoUpdate
    /\ rd = [r \in Readers |-> IdleReader]
    /\ lastCall = NoCall
    /\ lastGood = NoGood
    /\ heap = NoHeap

\* one entry of a fetched list is a valid address or CIDR text
ValidEntry(t) == ~parseCIDRs(<<t>>).err

\* the refresh that gets reply y fails
FailingReply(y) ==
    \/ y.kind # "ok"
    \/ \E i \in 1..Len(y.resp.GlobalIPList) :
            ~ValidEntry(y.resp.GlobalIPList[i])
    \/ \E i \in 1..Len(y.resp.RegionalEdgeIPList) :
            ~ValidEntry(y.resp.RegionalEdgeIPList[i])

\* the start of New on a configuration whose AllowedIPs is any list of
\* entries
InitParse ==
    /\ config \in ParseConfigs
    /\ newpc = "start"
    /\ newLocals = NoLocals
    /\ newResult = [handler |-> FALSE, err |-> "none"]
    /\ ips = NoStore
    /\ cf = NoGate
    /\ loop = "none"
    /\ ticker = "none"
    /\ ctxDone = FALSE
    /\ upd = NoUpdate
    /\ rd = [r \in Readers |-> IdleReader]
    /\ lastCall = NoCall
    /\ lastGood = NoGood
    /\ heap = NoHeap

\* the replies an Update that started under context state ctxWasDone can
\* get: a request on a cancelled context fails without being sent
RepliesFor(u) ==
    IF u.ctxWasDone THEN {y \in Replies : y.kind = "doerr"} ELSE Replies

\* the history kept when an Update that got reply y returns res
Record(y, res) ==
    /\ lastCall' = [made |-> TRUE,
                     failed |-> res.err # "nil",
                     failing |-> FailingReply(y),
                     repeat |-> /\ y.kind = "ok"
                                /\ lastCall.made /\ ~lastCall.failed
                                /\ lastGood.resp = y.resp,
                     kept |-> res.ips = ips,
                     again |-> lastCall.failed /\ res.err # "nil"]
    /\ lastGood' = IF res.err = "nil" THEN [ok |-> TRUE, resp |-> y.resp]
                   ELSE lastGood

(***************************************************************************)
(* New                                                                     *)
(***************************************************************************)
\* New up to the call of ips.Update (or to the return of a config error)
NewParse ==
    /\ newpc = "start"
    /\ \E refreshInterval \in {ParseDuration(config.RefreshInterval)},
          trustedIPs \in {parseCIDRs(config.AllowedIPs)} :
           /\ ips' = newIPStore
           /\ IF refreshInterval.err
              THEN /\ newpc' = "returned"
                   /\ newResult' = [handler |-> FALSE,
                        err |-> "failed to parse refresh interval"]
                   /\ UNCHANGED <<newLocals, upd>>
              ELSE IF trustedIPs.err
              THEN /\ newpc' = "returned"
                   /\ newResult' = [handler |-> FALSE,
                        err |-> "failed to parse trusted IPs"]
                   /\ UNCHANGED <<newLocals, upd>>
              ELSE /\ newpc' = "updating"
                   /\ newLocals' = [refreshInterval |-> refreshInterval.d,
                                    trustedIPs |-> trustedIPs.nets]
                   /\ upd' = [by |-> "New",
                        ctx |-> createContext(HTTPTimeoutDefault,
                                              trustedIPs.nets),
                        ctxWasDone |-> ctxDone]
                   /\ UNCHANGED newResult
           /\ heap' = IF refreshInterval.err \/ trustedIPs.err
                      THEN HeapNewIPStore(heap)
                      ELSE HeapTrustedIPs(HeapNewIPStore(heap),
                                          trustedIPs.nets)
    /\ UNCHANGED <<config, cf, loop, ticker, ctxDone, rd, lastCall, lastGood>>

\* as NewUpdateFailed, but the error of ips.Update is ignored
NewUpdateFailedIgnored(err) == FALSE

\* the err != nil test on the result of ips.Update in New
NewUpdateFailed(err) == err # "nil"

\* New from the return of ips.Update on
NewReturn(reply) ==
    /\ newpc = "updating"
    /\ upd.by = "New"
    /\ reply \in RepliesFor(upd)
    /\ \E res \in {Update(ips, upd.ctx, reply)} :
           /\ ips' = res.ips
           /\ heap' = HeapUpdate(heap, res)
           /\ Record(reply, res)
           /\ IF NewUpdateFailed(res.err)
              THEN /\ newResult' = [handler |-> FALSE,
                        err |-> "failed to update CloudFront IP ranges"]
                   /\ UNCHANGED <<cf, loop>>
              ELSE /\ cf' = [made |-> TRUE,
                             trustedIPs |-> newLocals.trustedIPs,
                             refreshInterval |-> newLocals.refreshInterval]
                   /\ loop' = "spawned"
                   /\ newResult' = [handler |-> TRUE, err |-> "nil"]
    /\ newpc' = "returned"
    /\ upd' = NoUpdate
    /\ UNCHANGED <<config, newLocals, ticker, ctxDone, rd>>

(***************************************************************************)
(* refreshLoop                                                             *)
(***************************************************************************)
\* time.NewTicker panics on a non-positive interval
LoopStart ==
    /\ loop = "spawned"
    /\ IF cf.refreshInterval <= 0
       THEN loop' = "panicked" /\ UNCHANGED ticker
       ELSE loop' = "idle" /\ ticker' = "running"
    /\ UNCHANGED <<config, newpc, newLocals, newResult, ips, cf, ctxDone, upd,
                   rd, lastCall, lastGood, heap>>

\* as LoopTick, but Update is started in a goroutine of its own and the
\* loop goes back to its select at once
LoopTickAsync ==
    /\ loop = "idle"
    /\ ticker = "running"
    /\ upd' = [by |-> "refreshLoop",
               ctx |-> createContext(HTTPTimeoutDefault, cf.trustedIPs),
               ctxWasDone |-> ctxDone]
    /\ UNCHANGED <<config, newpc, newLocals, newResult, ips, cf, loop, ticker,
                   ctxDone, rd, lastCall, lastGood, heap>>

\* case <-ticker.C, up to the call of ips.Update
LoopTick ==
    /\ loop = "idle"
    /\ ticker = "running"
    /\ loop' = "refreshing"
    /\ upd' = [by |-> "refreshLoop",
               ctx |-> createContext(HTTPTimeoutDefault, cf.trustedIPs),
               ctxWasDone |-> ctxDone]
    /\ UNCHANGED <<config, newpc, newLocals, newResult, ips, cf, ticker,
                   ctxDone, rd, lastCall, lastGood, heap>>

\* as LoopUpdateReturn, but the loop returns when Update fails
LoopUpdateReturnStopOnError(reply) ==
    /\ loop = "refreshing"
    /\ upd.by = "refreshLoop"
    /\ reply \in RepliesFor(upd)
    /\ \E res \in {Update(ips, upd.ctx, reply)} :
           /\ ips' = res.ips
           /\ heap' = HeapUpdate(heap, res)
           /\ Record(reply, res)
           /\ IF res.err # "nil"
              THEN loop' = "stopped" /\ ticker' = "stopped"
              ELSE loop' = "idle" /\ UNCHANGED ticker
    /\ upd' = NoUpdate
    /\ UNCHANGED <<config, newpc, newLocals, newResult, cf, ctxDone, rd>>

\* ips.Update returns in the loop; an error is only logged
LoopUpdateReturn(reply) ==
    /\ loop = "refreshing"
    /\ upd.by = "refreshLoop"
    /\ reply \in RepliesFor(upd)
    /\ loop' = "idle"
    /\ upd' = NoUpdate
    /\ \E res \in {Update(ips, upd.ctx, reply)} :
           /\ ips' = res.ips
           /\ heap' = HeapUpdate(heap, res)
           /\ Record(reply, res)
    /\ UNCHANGED <<config, newpc, newLocals, newResult, cf, ticker, ctxDone,
                   rd>>

\* as LoopDone, but without the deferred ticker.Stop
LoopDoneNoStop ==
    /\ loop = "idle"
    /\ ctxDone
    /\ loop' = "stopped"
    /\ UNCHANGED <<config, newpc, newLocals, newResult, ips, cf, ticker,
                   ctxDone, upd, rd, lastCall, lastGood, heap>>

\* case <-ctx.Done(): return, the deferred ticker.Stop runs
LoopDone ==
    /\ loop = "idle"
    /\ ctxDone
    /\ loop' = "stopped"
    /\ ticker' = "stopped"
    /\ UNCHANGED <<config, newpc, newLocals, newResult, ips, cf, ctxDone, upd,
                   rd, lastCall, lastGood, heap>>

\* the owner of the context cancels it
Cancel ==
    /\ ~ctxDone
    /\ ctxDone' = TRUE
    /\ UNCHANGED <<config, newpc, newLocals, newResult, ips, cf, loop, ticker,
                   upd, rd, lastCall, lastGood, heap>>

(***************************************************************************)
(* ServeHTTP, with the loop of ipstore.Contains one range per step         *)
(***************************************************************************)
\* strings.Split(req.RemoteAddr, ":")[0]
RemoteHost(addr) == Split(addr, ":")[1]

\* as ServeDecision, with "and" in place of "or"
ServeDecisionAnd(remoteIP, contained) ==
    IF remoteIP = NilIP /\ ~contained THEN "Forbidden" ELSE "next"

\* the condition of ServeHTTP's if
ServeDecision(remoteIP, contained) ==
    IF remoteIP = NilIP \/ ~contained THEN "Forbidden" ELSE "next"

\* http.Error(rw, "Forbidden", 403), or cf.next.ServeHTTP(rw, req)
Respond(q, d) ==
    [q EXCEPT !.pc = "done",
              !.status = IF d = "Forbidden" THEN 403 ELSE 0,
              !.nextCalls = IF d = "next" THEN q.nextCalls + 1
                            ELSE q.nextCalls]

\* as ScanSource, but the store is loaded again on every iteration
ScanSourceReload(r) == ips.val

\* the slice the loop of Contains ranges over: the value loaded once
ScanSource(r) == rd[r].cidrs

\* as ServeBegin, but the request waits while an Update is in progress
ServeBeginWaits(r, addr) ==
    /\ upd.by = "none"
    /\ newResult.handler
    /\ ~Crashed
    /\ rd[r].pc = "idle"
    /\ \E remoteIP \in {ParseIP(RemoteHost(addr))} :
       \E q \in {[rd[r] EXCEPT !.addr = addr, !.ip = remoteIP,
                                !.atStart = ips.val]} :
           /\ rd' = [rd EXCEPT ![r] =
                IF remoteIP = NilIP \/ ips.typ # "[]net.IPNet"
                THEN Respond(q, ServeDecision(remoteIP, FALSE))
                ELSE [q EXCEPT !.pc = "scan", !.cidrs = ips.val, !.i = 1]]
           /\ heap' = IF remoteIP = NilIP \/ ips.typ # "[]net.IPNet"
                      THEN heap ELSE HeapLoad(heap, r)
    /\ UNCHANGED <<config, newpc, newLocals, newResult, ips, cf, loop, ticker,
                   ctxDone, upd, lastCall, lastGood>>

\* ServeHTTP up to the Load of ips (or to the 403 of an unparseable address)
ServeBegin(r, addr) ==
    /\ newResult.handler
    /\ ~Crashed
    /\ rd[r].pc = "idle"
    /\ \E remoteIP \in {ParseIP(RemoteHost(addr))} :
       \E q \in {[rd[r] EXCEPT !.addr = addr, !.ip = remoteIP,
                                !.atStart = ips.val]} :
           /\ rd' = [rd EXCEPT ![r] =
                IF remoteIP = NilIP \/ ips.typ # "[]net.IPNet"
                THEN Respond(q, ServeDecision(remoteIP, FALSE))
                ELSE [q EXCEPT !.pc = "scan", !.cidrs = ips.val, !.i = 1]]
           /\ heap' = IF remoteIP = NilIP \/ ips.typ # "[]net.IPNet"
                      THEN heap ELSE HeapLoad(heap, r)
    /\ UNCHANGED <<config, newpc, newLocals, newResult, ips, cf, loop, ticker,
                   ctxDone, upd, lastCall, lastGood>>

\* one iteration of the loop of Contains, or its end
ServeScan(r) ==
    /\ ~Crashed
    /\ rd[r].pc = "scan"
    /\ \E q \in {rd[r]}, src \in {ScanSource(r)} :
           /\ rd' = [rd EXCEPT ![r] =
                IF q.i > Len(src)
                THEN Respond(q, ServeDecision(q.ip, FALSE))
                ELSE LET q2 == [q EXCEPT !.seen = Append(q.seen, src[q.i])]
                     IN  IF IPNetContains(src[q.i], q.ip)
                         THEN Respond(q2, ServeDecision(q.ip, TRUE))
                         ELSE [q2 EXCEPT !.i = q.i + 1]]
           /\ heap' = IF rd'[r].pc = "done" THEN HeapRelease(heap, r)
                      ELSE heap
    /\ UNCHANGED <<config, newpc, newLocals, newResult, ips, cf, loop, ticker,
                   ctxDone, upd, lastCall, lastGood>>

\* as ServeEnd, but a rejected request empties the store
ServeEndResets(r) ==
    /\ ~Crashed
    /\ rd[r].pc = "done"
    /\ rd' = [rd EXCEPT ![r] = IdleReader]
    /\ UNCHANGED heap
    /\ ips' = IF rd[r].status = 403 THEN newIPStore ELSE ips
    /\ UNCHANGED <<config, newpc, newLocals, newResult, cf, loop, ticker,
                   ctxDone, upd, lastCall, lastGood>>

\* ServeHTTP has returned; the goroutine takes the next request
ServeEnd(r) ==
    /\ ~Crashed
    /\ rd[r].pc = "done"
    /\ rd' = [rd EXCEPT ![r] = IdleReader]
    /\ UNCHANGED heap
    /\ UNCHANGED <<config, newpc, newLocals, newResult, ips, cf, loop, ticker,
                   ctxDone, upd, lastCall, lastGood>>

Next ==
    \/ NewParse
    \/ \E reply \in Replies : NewReturn(reply)
    \/ LoopStart
    \/ LoopTick
    \/ \E reply \in Replies : LoopUpdateReturn(reply)
    \/ LoopDone
    \/ Cancel
    \/ \E r \in Readers, addr \in RemoteAddrs : ServeBegin(r, addr)
    \/ \E r \in Readers : ServeScan(r)
    \/ \E r \in Readers : ServeEnd(r)

Spec == Init /\ [][Next]_vars

\* New up to its call of Update, parseCIDRs applied to every list of
\* entries
SpecParse == InitParse /\ [][NewParse]_vars

\* the scheduling of refreshLoop: the goroutine started by New runs; an
\* Update in flight returns (the HTTP client has a timeout and the request
\* carries the context); select picks among its ready cases at random, so
\* a case that is ready again and again is taken
LiveSpec ==
    /\ Spec
    /\ WF_vars(LoopStart)
    /\ WF_vars(\E reply \in Replies : LoopUpdateReturn(reply))
    /\ SF_vars(LoopDone)

(***************************************************************************)
(* Reference notions the properties are stated with                        *)
(***************************************************************************)
\* the addresses the properties quantify over
ProbeIPs ==
    { <<203, 0, 113, 9>>, <<8, 8, 8, 8>>, <<10, 0, 0, 5>>, <<10, 0, 0, 4>>,
      <<13, 113, 196, 65>>, <<13, 113, 196, 128>>,
      <<32, 1, 13, 184, 0, 0, 0, 0, 0, 0, 0, 0, 0, 0, 0, 1>>,
      <<32, 1, 13, 185, 0, 0, 0, 0, 0, 0, 0, 0, 0, 0, 0, 1>> }

\* an address in its shortest form
Canon(x) == IF To4(x) # NilIP THEN To4(x) ELSE x

\* the mask of a range, as long as the range's address in its shortest form
CanonMask(r) ==
    IF Len(r.Mask) > Len(Canon(r.IP))
    THEN SubSeq(r.Mask, Len(r.Mask) - Len(Canon(r.IP)) + 1, Len(r.Mask))
    ELSE r.Mask

\* address a lies within the prefix of range r: the two addresses are of
\* one family and, byte by byte, fall in the same block of the size that
\* the prefix leaves free (1 under a full mask byte, 256 under an empty one)
InPrefix(a, r) ==
    \E x \in {Canon(a)}, n \in {Canon(r.IP)}, m \in {CanonMask(r)} :
        /\ Len(x) = Len(n)
        /\ Len(m) = Len(n)
        /\ \A i \in 1..Len(n) :
              x[i] \div (256 - m[i]) = n[i] \div (256 - m[i])

\* address a lies in some range of the set S
InSome(a, S) == \E i \in 1..Len(S) : InPrefix(a, S[i])

IsPrefixOf(s, t) == Len(s) <= Len(t) /\ s = SubSeq(t, 1, Len(s))

(***************************************************************************)
(* Properties                                                              *)
(***************************************************************************)
\* C1: every Contains call in progress or finished has examined ranges of
\* one set only, the whole value the store held when the call loaded it,
\* in order from its start, and a finished call's result is the result of
\* Contains on that whole set: never a mixture of two sets, never a
\* partially built set.
C1_ContainsSeesOneSet ==
    \A r \in Readers :
        (rd[r].pc \in {"scan", "done"} /\ rd[r].ip # NilIP) =>
            \E S \in {rd[r].atStart} :
                /\ IsPrefixOf(rd[r].seen, S)
                /\ rd[r].pc = "done" =>
                      ((rd[r].nextCalls = 1) = ContainsFrom(S, 1, rd[r].ip))

\* C1 witness: a Contains call is in the middle of its scan of a set that
\* an Update has replaced since the call loaded it
C1_Witness ==
    \E r \in Readers :
        /\ rd[r].pc = "scan"
        /\ rd[r].seen # <<>>
        /\ rd[r].cidrs # ips.val
        /\ ~IsPrefixOf(rd[r].seen, ips.val)

\* C2: an Update whose fetch fails (request error, non-200 status,
\* unreadable body, malformed JSON, an invalid entry in either list)
\* returns an error and leaves the store as it found it, so Contains,
\* a function of the store's value, answers the same for every address
\* before and after it.
C2_FailedRefreshKeepsSet ==
    (lastCall.made /\ lastCall.failing) =>
        /\ lastCall.failed
        /\ lastCall.kept

\* C2 witness: a refresh of the loop failed while the store held a
\* non-empty set
C2_Witness ==
    /\ loop = "idle"
    /\ lastCall.failing
    /\ lastGood.ok
    /\ ips.val # <<>>

\* C3: a request whose address does not parse, or for which Contains is
\* false on the set it loaded, is answered 403 and never reaches the
\* downstream handler.
C3_RejectedNeverReachesNext ==
    \A r \in Readers :
        /\ rd[r].pc = "scan" => rd[r].nextCalls = 0
        /\ (/\ rd[r].pc = "done"
            /\ \/ ParseIP(RemoteHost(rd[r].addr)) = NilIP
               \/ ~InSome(rd[r].ip, rd[r].cidrs)) =>
                 rd[r].status = 403 /\ rd[r].nextCalls = 0

\* C3 witness: a request with a parseable address was answered 403 after
\* Contains scanned a whole non-empty set without a match
C3_Witness ==
    \E r \in Readers :
        /\ rd[r].pc = "done"
        /\ rd[r].status = 403
        /\ rd[r].ip # NilIP
        /\ rd[r].cidrs # <<>>
        /\ rd[r].seen = rd[r].cidrs

\* the host of "address:port", "[address]:port" or a bare address, as
\* net.SplitHostPort reads it
HostOf(addr) ==
    LET close  == IndexByte(addr, "]")
        colons == Cardinality({i \in 1..Len(addr) : addr[i] = ":"})
    IN  IF addr # <<>> /\ addr[1] = "[" /\ close # 0
        THEN SubSeq(addr, 2, close - 1)
        ELSE IF colons = 1 THEN SubSeq(addr, 1, IndexByte(addr, ":") - 1)
        ELSE addr

\* C4: a request whose remote address, port stripped, lies in some range
\* of the set current when the request is decided is allowed and reaches
\* the downstream handler exactly once, for every address family.
C4_TrustedAddressAllowed ==
    \A r \in Readers :
        (/\ rd[r].pc = "done"
         /\ ParseIP(HostOf(rd[r].addr)) # NilIP
         /\ InSome(ParseIP(HostOf(rd[r].addr)), rd[r].atStart)) =>
            rd[r].status # 403 /\ rd[r].nextCalls = 1

\* C5: when the Update of New fails, New returns an error and no handler,
\* no gate exists, the refresh loop is not started; and as long as no
\* handler has been returned no request is served.
C5_FailedFirstUpdateNoGate ==
    /\ (newpc = "returned" /\ lastCall.failing /\ ~lastGood.ok) =>
            /\ newResult.err = "failed to update CloudFront IP ranges"
            /\ ~newResult.handler
            /\ ~cf.made
            /\ loop = "none"
    /\ ~newResult.handler =>
            /\ loop = "none"
            /\ ticker = "none"
            /\ \A r \in Readers : rd[r] = IdleReader

\* C5 witness: New has returned the error of its failed first Update
C5_Witness ==
    /\ newpc = "returned"
    /\ lastCall.failing
    /\ ~lastGood.ok
    /\ ~newResult.handler

\* a refresh interval text that is a positive duration
PositiveInterval(t) == ~ParseDuration(t).err /\ ParseDuration(t).d > 0

\* C6: when refreshInterval is not a positive duration (unparseable, zero
\* or negative), New returns an error and no handler, the refresh loop is
\* not started and nothing panics.
C6_NonPositiveIntervalRejected ==
    ~PositiveInterval(config.RefreshInterval) =>
        /\ ~newResult.handler
        /\ newpc = "returned" => newResult.err \notin {"nil", "none"}
        /\ loop = "none"
        /\ ~Crashed

\* the ranges of a list of valid address or CIDR texts, in order
RangeList(l) ==
    [i \in 1..Len(l) |->
        ParseCIDR(IF StrContains(l[i], "/") THEN l[i]
                  ELSE l[i] \o <<"/", "3", "2">>)]

\* the ranges of a response: global entries, then regional-edge entries
ResponseRanges(resp) ==
    RangeList(resp.GlobalIPList) \o RangeList(resp.RegionalEdgeIPList)

\* C7: once New has returned a handler, the store's set is the operator
\* ranges parsed at construction followed by the ranges of the last
\* successfully fetched response (global, then regional-edge), whatever
\* refreshes succeeded or failed since; Contains(a) holds iff a lies in
\* an operator range or in a range of that response.
C7_SetIsOperatorPlusLastFetched ==
    newResult.handler =>
        \E operatorRanges \in {RangeList(config.AllowedIPs)},
           R \in {ResponseRanges(lastGood.resp)} :
            /\ cf.trustedIPs = operatorRanges
            /\ ips.val = operatorRanges \o R
            /\ \A a \in ProbeIPs :
                  Contains(ips, a) <=>
                      (InSome(a, operatorRanges) \/ InSome(a, R))

\* C7 witness: after a successful refresh with a response that has both
\* global and regional entries, a later refresh failed, and the operator
\* ranges are not empty
C7_Witness ==
    /\ newResult.handler
    /\ cf.trustedIPs # <<>>
    /\ lastGood.resp.GlobalIPList # <<>>
    /\ lastGood.resp.RegionalEdgeIPList # <<>>
    /\ loop = "idle"
    /\ lastCall.failing

\* C8 as stated: while New is inside its first Update the store holds the
\* operator ranges, so Contains(a) holds exactly for the addresses of the
\* operator ranges.
C8_InitHoldsOperatorRanges ==
    newpc = "updating" =>
        /\ ips.val = newLocals.trustedIPs
        /\ \A a \in ProbeIPs :
              Contains(ips, a) <=> InSome(a, newLocals.trustedIPs)

\* C8 amended: from newIPStore until the first successful Update the
\* store holds the empty set, whatever the operator ranges are, so
\* Contains(a) is false for every address.
C8_InitIsEmpty ==
    (ips # NoStore /\ ~lastGood.ok) =>
        /\ ips = Store(<<>>)
        /\ \A a \in ProbeIPs : ~Contains(ips, a)

\* C8 witness: New is inside its first Update with operator ranges that
\* are not empty
C8_Witness ==
    /\ newpc = "updating"
    /\ newLocals.trustedIPs # <<>>
    /\ ips # NoStore
    /\ ~lastGood.ok

RECURSIVE Reverse(_)
Reverse(q) == IF q = <<>> THEN <<>> ELSE Append(Reverse(Tail(q)), q[1])

\* C9: for every set S the store holds and every address a, Contains(a) on S is
\* true iff a lies within the prefix of some range of S, whatever the
\* order of the ranges, and false on the empty set; a finished request
\* with a parseable address was allowed iff some range of the set it
\* loaded holds its address.
C9_ContainsIffSomeRange ==
    /\ \A S \in {ips.val} : \A a \in ProbeIPs :
          \E found \in {Contains(Store(S), a)} :
              /\ found <=> InSome(a, S)
              /\ found <=> Contains(Store(Reverse(S)), a)
    /\ \A a \in ProbeIPs : ~Contains(Store(<<>>), a)
    /\ \A r \in Readers :
          (rd[r].pc = "done" /\ rd[r].ip # NilIP) =>
              ((rd[r].nextCalls = 1) <=> InSome(rd[r].ip, rd[r].cidrs))

\* C9 witness: the current set has an address that its first range does
\* not hold and a later range does, and a request was allowed on a range
\* that is not the first of the set it loaded
C9_Witness ==
    /\ \E a \in ProbeIPs :
          Contains(ips, a) /\ ~IPNetContains(ips.val[1], a)
    /\ \E r \in Readers :
          rd[r].pc = "done" /\ rd[r].nextCalls = 1 /\ Len(rd[r].seen) > 1

\* C10: a successful Update that follows a successful Update and fetched
\* the same response leaves the store's set, and so Contains(a) for every
\* address a, as the first one left it.
C10_UpdateIdempotent ==
    lastCall.repeat => ~lastCall.failed /\ lastCall.kept

\* C10 witness: the last two Update calls succeeded on the same response,
\* which has ranges
C10_Witness ==
    /\ lastCall.repeat
    /\ lastGood.resp.GlobalIPList # <<>>
    /\ \E a \in ProbeIPs : Contains(ips, a)

\* refreshLoop has come to its end: by its return or by the panic
LoopOver == loop \in {"stopped", "panicked"}

\* C11: once the context is cancelled a started refresh loop comes to its
\* end, given that an Update in flight returns; a loop that has returned
\* has stopped its ticker, has no Update in progress, and from then on
\* starts none and changes neither the loop, the ticker nor the store.
C11_CancelStopsLoop ==
    /\ (ctxDone /\ loop # "none") ~> LoopOver
    /\ [](loop = "stopped" => ticker = "stopped" /\ upd = NoUpdate)
    /\ [][loop = "stopped" => UNCHANGED <<loop, ticker, upd, ips>>]_vars

\* C11 witness: the loop has returned after the cancellation, and its last
\* refresh, started under the cancelled context, had failed
C11_Witness ==
    /\ ctxDone
    /\ loop = "stopped"
    /\ ticker = "stopped"
    /\ lastGood.ok
    /\ lastCall.failed

\* C12: a failed refresh does not end the loop. The loop returns only
\* under a cancelled context; after a failed refresh and without
\* cancellation it is idle with its ticker running, or in a new attempt;
\* idle and without cancellation, the tick case is the one it can take;
\* every attempt of the loop carries the operator ranges of construction.
\* This holds after any number of consecutive failures.
C12_FailedRefreshKeepsLoop ==
    /\ loop = "stopped" => ctxDone
    /\ (lastGood.ok /\ lastCall.failed /\ ~ctxDone) =>
            /\ loop \in {"idle", "refreshing"}
            /\ ticker = "running"
    /\ (loop = "idle" /\ ~ctxDone) =>
            (ENABLED LoopTick) /\ ~(ENABLED LoopDone)
    /\ upd.by = "refreshLoop" =>
            /\ loop = "refreshing"
            /\ upd.ctx.TrustedIPs = [typ |-> "[]net.IPNet",
                                     val |-> cf.trustedIPs]
            /\ cf.trustedIPs = newLocals.trustedIPs

\* C12 witness: without cancellation, a new attempt is in progress after
\* two consecutive failed refreshes of the loop
C12_Witness ==
    /\ ~ctxDone
    /\ lastGood.ok
    /\ lastCall.failed
    /\ lastCall.again
    /\ upd.by = "refreshLoop"
    /\ loop = "refreshing"

\* C13: while the process runs and New has returned the handler, in every
\* state of the refresh loop, also with an Update in flight, a request can
\* be taken and each of its steps can be taken; a scan works on the value
\* the store held when ServeHTTP loaded it and ends after at most one step
\* per range. Only New and refreshLoop run Update: no step of a request
\* starts, ends or records one.
C13_ServeNeverWaits ==
    /\ [](\A r \in Readers :
            (newResult.handler /\ ~Crashed) =>
                /\ rd[r].pc = "idle" =>
                      \A addr \in RemoteAddrs : ENABLED ServeBegin(r, addr)
                /\ rd[r].pc = "scan" =>
                      /\ ENABLED ServeScan(r)
                      /\ rd[r].cidrs = rd[r].atStart
                      /\ rd[r].i <= Len(rd[r].cidrs) + 1
                /\ rd[r].pc = "done" => ENABLED ServeEnd(r))
    /\ [](upd.by \in {"none", "New", "refreshLoop"})
    /\ [][rd' # rd => UNCHANGED <<upd, lastCall, lastGood, loop, newpc>>]_vars

\* C13 witness: a request is in the middle of its scan while an Update of
\* the refresh loop is in flight
C13_Witness ==
    /\ upd.by = "refreshLoop"
    /\ \E r \in Readers :
          /\ rd[r].pc = "scan"
          /\ rd[r].i > 1
          /\ rd[r].i <= Len(rd[r].cidrs)

\* C14: parseCIDRs on a list with an invalid entry returns the error and
\* no range at all, whatever was parsed before that entry; on a list of
\* valid entries it returns no error and one range per entry, in the
\* order of the list. New goes on with exactly these ranges, or returns
\* the error.
C14_ParseAllOrNothing ==
    \E l \in {config.AllowedIPs} :
    \E res \in {parseCIDRs(l)}, R \in {RangeList(l)} :
        /\ IF \E k \in 1..Len(l) : R[k] = NilNet
           THEN res.err /\ res.nets = <<>>
           ELSE /\ ~res.err
                /\ Len(res.nets) = Len(l)
                /\ \A k \in 1..Len(l) : res.nets[k] = R[k]
        /\ newpc = "updating" => ~res.err /\ newLocals.trustedIPs = res.nets
        /\ newpc = "returned" =>
              /\ res.err
              /\ newResult = [handler |-> FALSE,
                              err |-> "failed to parse trusted IPs"]

\* C14 witness: New has returned the error of a list whose first entry is
\* valid and whose second is not
C14_Witness ==
    /\ newpc = "returned"
    /\ Len(config.AllowedIPs) = 2
    /\ RangeList(config.AllowedIPs)[1] # NilNet
    /\ RangeList(config.AllowedIPs)[2] = NilNet

\* the address next to ip: its last byte one further, wrapping at 256
NextAddress(ip) == [ip EXCEPT ![Len(ip)] = (ip[Len(ip)] + 1) % 256]

\* C15: an entry without a prefix length that is an address parses to the
\* single-address range of its family (/32 for IPv4, /128 for IPv6): the
\* range contains that address and no other address.
C15_BareAddressIsSingleRange ==
    newpc = "updating" =>
        \A k \in 1..Len(config.AllowedIPs) :
            \E t \in {config.AllowedIPs[k]}, n \in {newLocals.trustedIPs[k]} :
            \E ip \in {ParseIP(t)} :
                (~StrContains(t, "/") /\ ip # NilIP) =>
                    /\ IPNetContains(n, ip)
                    /\ \A a \in ProbeIPs \cup {NextAddress(ip)} :
                          IPNetContains(n, a) => Canon(a) = Canon(ip)

\* C16: no step of ServeHTTP, for an allowed or a rejected request,
\* changes the store: its set after the request is its set before it
\* unless an Update published meanwhile; once newIPStore has created
\* the store, it changes only in the step in which a call of Update
\* returns.
C16_ServeLeavesStore ==
    [][/\ rd' # rd => ips' = ips
       /\ ips' # ips =>
             \/ ips = NoStore /\ ips' = newIPStore
             \/ upd.by \in {"New", "refreshLoop"} /\ upd' = NoUpdate
      ]_vars

C16_Witness ==
    \E r \in Readers :
        /\ rd[r].pc = "done"
        /\ rd[r].status = 403
        /\ rd[r].seen # <<>>
        /\ ips.val = rd[r].atStart
        /\ lastGood.ok

\* C17: a set is never modified after it has been published: every
\* successful Update publishes an array that no slice pointed at before,
\* so the array behind the set a request has loaded holds what the request
\* loaded, the array behind the operator list holds the ranges parsed at
\* construction, and the store's array holds the store's set, across all
\* later updates.
C17_PublishedSetsImmutable ==
    /\ \A r \in Readers :
          heap.rdr[r] # 0 => heap.mem[heap.rdr[r]] = rd[r].cidrs
    /\ heap.trusted # 0 =>
          /\ heap.mem[heap.trusted] = newLocals.trustedIPs
          /\ heap.trusted # heap.store
          /\ \A r \in Readers : heap.rdr[r] # heap.trusted
    /\ heap.store # 0 => heap.mem[heap.store] = ips.val

C17_Witness ==
    \E r \in Readers :
        /\ rd[r].pc = "scan"
        /\ rd[r].i > 1
        /\ heap.rdr[r] # heap.store
        /\ heap.mem[heap.rdr[r]] # <<>>
        /\ heap.mem[heap.rdr[r]] # heap.mem[heap.store]
        /\ lastCall.made /\ ~lastCall.failed

\* the callers that are inside a call of Update: New between its call and
\* its return, the loop between a tick and the return
InUpdate ==
    {c \in {"New", "refreshLoop"} :
        \/ c = "New" /\ newpc = "updating"
        \/ c = "refreshLoop" /\ loop = "refreshing"}

\* C18: at most one Update is in progress at any time: the loop exists
\* only once the Update of New has returned without error, and while an
\* Update is in progress the loop takes no tick, so no call of Update
\* starts before the one before it has returned.
C18_OneUpdateAtATime ==
    /\ Cardinality(InUpdate) <= 1
    /\ upd.by = "none" <=> InUpdate = {}
    /\ upd.by # "none" => InUpdate = {upd.by}
    /\ upd.by # "none" => ~(ENABLED LoopTick) /\ ~(ENABLED NewParse)
    /\ newpc # "returned" => loop = "none"
    /\ loop # "none" => lastGood.ok /\ newResult.handler

C18_Witness ==
    /\ upd.by = "refreshLoop"
    /\ InUpdate = {"refreshLoop"}
    /\ lastCall.repeat
    /\ \E r \in Readers : rd[r].pc = "scan"

\* a range as net.ParseCIDR builds it: an address of 4 or 16 bytes and a
\* mask of the same length
ValidRange(n) ==
    /\ Len(n.IP) \in {IPv4len, IPv6len}
    /\ Len(n.Mask) = Len(n.IP)

\* C19: from newIPStore on the store's atomic.Value holds a []net.IPNet
\* of valid ranges, at first the empty one, so the type assertion of
\* Contains never fails: a request with a parseable address always goes
\* through the scan of the loaded sequence.
C19_StoreHoldsRanges ==
    /\ newpc # "start" =>
          /\ ips.typ = "[]net.IPNet"
          /\ \A i \in 1..Len(ips.val) : ValidRange(ips.val[i])
    /\ newpc = "updating" => ips = Store(<<>>)
    /\ \A r \in Readers :
          (rd[r].pc # "idle" /\ rd[r].ip # NilIP) => rd[r].i >= 1

C19_Witness ==
    \E r \in Readers :
        /\ rd[r].pc = "done"
        /\ rd[r].ip # NilIP
        /\ rd[r].i = Len(rd[r].cidrs) + 1
        /\ rd[r].seen = rd[r].cidrs
        /\ rd[r].status = 403
        /\ ips.typ = "[]net.IPNet"
        /\ Len(ips.val) > Len(rd[r].cidrs)

=============================================================================
